---- MODULE Spec2Model ----
(***************************************************************************)
(* Hydrological-year statistics of chrissikrause/SWE_statistics:           *)
(* assignment of hydrological years, day-of-hydrological-year, the         *)
(* per-year parameter extractors and the trend estimator.                  *)
(*                                                                         *)
(* Dates are proleptic Gregorian day ordinals (day 1 = 0001-01-01), the    *)
(* representation behind pandas.Timestamp arithmetic; .year/.month/.day    *)
(* and Timestamp(year, month, day) convert between ordinals and civil      *)
(* dates.  A missing value (None, NaN, NaT) is the empty sequence and a    *)
(* present value v is <<v>>.                                               *)
(***************************************************************************)
EXTENDS Integers, Sequences, FiniteSets, TLC

VARIABLES
    date,           \* SpecDates: the date handed to the two date functions
    start_month,    \* SpecDates: the start_month argument
    hydro_year,     \* SpecDates: result of assign_hydrological_year for date
    day_ordinal,    \* SpecDates: result of day_in_hydro_year for date
    prev_ordinal,   \* SpecDates: result of day_in_hydro_year for the day before
    pc,             \* position of the batch run
    source,         \* the loader's series of the basin: rows [ts, value]
    index_is_dt,    \* whether the loader's index already is a DatetimeIndex
    var_name,       \* variable family of the run: "swe", "rain", "discharge"
    csv,            \* the basin's time-series file written by process_basins
    groups,         \* hydro_year -> the sorted group the extractor processed
    result_rows,    \* the ParameterRows appended by the extractor
    table,          \* calculate_trends: the input parameter table
    variables,      \* calculate_trends: the list of analysed columns
    results,        \* calculate_trends: column -> the TrendRows written to its file
    printed,        \* the messages printed by the batch run, in order
    arg_month1,     \* calc_month_distance: first argument
    arg_month2,     \* calc_month_distance: second argument
    month_distance, \* calc_month_distance: the value returned
    basin_list,     \* process_basins: the requested basin ids
    time_series_list_fao,       \* process_basins: the items of the FAO source
    time_series_list_subbasins, \* process_basins: the items of the subbasin source
    files           \* process_basins: basin id -> time-series file written

vars == <<date, start_month, hydro_year, day_ordinal, prev_ordinal, pc, source,
          index_is_dt, var_name, csv, groups, result_rows, table, variables, results,
          printed, arg_month1, arg_month2, month_distance, basin_list,
          time_series_list_fao, time_series_list_subbasins, files>>

dateVars == <<date, start_month, hydro_year, day_ordinal, prev_ordinal>>
batchVars == <<pc, source, index_is_dt, var_name, csv, groups, result_rows, printed>>
trendVars == <<table, variables, results>>
monthVars == <<arg_month1, arg_month2, month_distance>>
listVars == <<basin_list, time_series_list_fao, time_series_list_subbasins, files>>

----------------------------------------------------------------------------
(* Missing values *)

None == <<>>
Some(v) == <<v>>
IsNone(x) == x = <<>>
Val(x) == x[1]

----------------------------------------------------------------------------
(* Bounds *)

\* calendar years covered by the date specification, from start_year on
NumYears == 3

(* Program constants *)

\* swe_parameters.py main(): start_year = 1980
start_year == 1980
\* default of the start_month parameter
DefaultStartMonth == 9

----------------------------------------------------------------------------
(* Calendar: pandas.Timestamp *)

IsLeap(y) == (y % 4 = 0) /\ ((y % 100 # 0) \/ (y % 400 = 0))

DaysInMonth(y, m) ==
    IF m = 2 THEN (IF IsLeap(y) THEN 29 ELSE 28)
    ELSE IF m \in {4, 6, 9, 11} THEN 30 ELSE 31

DaysBeforeYear(y) ==
    365 * (y - 1) + ((y - 1) \div 4) - ((y - 1) \div 100) + ((y - 1) \div 400)

RECURSIVE DaysBeforeMonth(_, _)
DaysBeforeMonth(y, m) ==
    IF m = 1 THEN 0 ELSE DaysBeforeMonth(y, m - 1) + DaysInMonth(y, m - 1)

\* pd.Timestamp(year=y, month=m, day=d)
Timestamp(y, m, d) == DaysBeforeYear(y) + DaysBeforeMonth(y, m) + d

CalendarYears == (start_year - 2)..(start_year + NumYears + 2)

\* civil (year, month, day) of every day of the calendar years
CivilOf(t) ==
    LET y == CHOOSE yy \in CalendarYears :
                 Timestamp(yy, 1, 1) <= t /\ t < Timestamp(yy + 1, 1, 1)
        m == CHOOSE mm \in 1..12 :
                 /\ Timestamp(y, mm, 1) <= t
                 /\ t < Timestamp(y, mm, 1) + DaysInMonth(y, mm)
    IN  <<y, m, t - Timestamp(y, m, 1) + 1>>

Civil ==
    [t \in Timestamp(start_year - 2, 1, 1)..Timestamp(start_year + NumYears + 2, 12, 31)
        |-> CivilOf(t)]

\* Timestamp.year
YearOf(t) == Civil[t][1]

\* Timestamp.month
MonthOf(t) == Civil[t][2]

\* Timestamp.day
DayOf(t) == Civil[t][3]

----------------------------------------------------------------------------
(* hydrological_year.py *)

AssignHydroYearOffByOne(t, sm) ==
    YearOf(t) + (IF MonthOf(t) > sm THEN 1 ELSE 0)

\* assign_hydrological_year, the 'hydro_year' column of one row
HydroYearOf(t, sm) ==
    YearOf(t) + (IF MonthOf(t) >= sm THEN 1 ELSE 0)

\* assign_hydrological_year, the 'hydro_year_str' column: '<start>/<end 2 digits>'
HydroYearStr(hy) == <<hy - 1, hy % 100>>

DayInHydroYearZeroBased(d, sm) ==
    IF IsNone(d) THEN None
    ELSE LET t == Val(d)
             hydro_year_start ==
                 Timestamp(IF MonthOf(t) >= sm THEN YearOf(t) ELSE YearOf(t) - 1, sm, 1)
         IN  Some(t - hydro_year_start)

DayInCalendarYear(d, sm) ==
    IF IsNone(d) THEN None
    ELSE Some((Val(d) - Timestamp(YearOf(Val(d)), 1, 1)) + 1)

\* day_in_hydro_year(date, start_month); d is None (NaT) or Some(ordinal)
day_in_hydro_year(d, sm) ==
    IF IsNone(d) THEN None
    ELSE LET t == Val(d)
             hydro_year_start ==
                 Timestamp(IF MonthOf(t) >= sm THEN YearOf(t) ELSE YearOf(t) - 1, sm, 1)
         IN  Some((t - hydro_year_start) + 1)

----------------------------------------------------------------------------
(* The parts of the state a specification does not use *)

IdleBatch ==
    /\ pc = "idle"
    /\ source = <<>>
    /\ index_is_dt = TRUE
    /\ var_name = "swe"
    /\ csv = None
    /\ groups = <<>>
    /\ result_rows = <<>>
    /\ printed = <<>>

IdleTrend ==
    /\ table = <<>>
    /\ variables = <<>>
    /\ results = <<>>

IdleMonths ==
    /\ arg_month1 = None
    /\ arg_month2 = None
    /\ month_distance = None

IdleLists ==
    /\ basin_list = <<>>
    /\ time_series_list_fao = <<>>
    /\ time_series_list_subbasins = <<>>
    /\ files = <<>>

IdleDates ==
    /\ date = None
    /\ start_month = DefaultStartMonth
    /\ hydro_year = None
    /\ day_ordinal = None
    /\ prev_ordinal = None

----------------------------------------------------------------------------
(* Sequences and sorting *)

RECURSIVE SeqSum(_)
SeqSum(s) == IF s = <<>> THEN 0 ELSE Head(s) + SeqSum(Tail(s))

RemoveAt(s, i) == SubSeq(s, 1, i - 1) \o SubSeq(s, i + 1, Len(s))

SetMin(S) == CHOOSE x \in S : \A y \in S : x <= y
SetMax(S) == CHOOSE x \in S : \A y \in S : x >= y

\* ascending list of a finite set of integers
RECURSIVE SortedList(_)
SortedList(S) ==
    IF S = {} THEN <<>>
    ELSE LET m == SetMin(S) IN <<m>> \o SortedList(S \ {m})

\* key of a series row in sort_index: the timestamp (day, time of day)
TsLess(a, b) == a.day < b.day \/ (a.day = b.day /\ a.tod < b.tod)
TsLeq(a, b) == a.day < b.day \/ (a.day = b.day /\ a.tod <= b.tod)

\* Series.sort_index(): the default quicksort is not stable, so every order
\* of the rows that ascends by timestamp is a possible result
RECURSIVE sort_index(_)
sort_index(s) ==
    IF s = <<>> THEN {<<>>}
    ELSE UNION {
            {<<s[i]>> \o rest : rest \in sort_index(RemoveAt(s, i))} :
            i \in {j \in 1..Len(s) : \A k \in 1..Len(s) : ~TsLess(s[k], s[j])} }

sort_values_skipped(g) == {g}

\* DataFrame.sort_values('date'): the default quicksort is not stable, so
\* every order of the rows that ascends by date is a possible result
RECURSIVE sort_values(_)
sort_values(g) ==
    IF g = <<>> THEN {<<>>}
    ELSE UNION {
            {<<g[i]>> \o rest : rest \in sort_values(RemoveAt(g, i))} :
            i \in {j \in 1..Len(g) : \A k \in 1..Len(g) : g[k].date >= g[j].date} }

----------------------------------------------------------------------------
(* extract_time_series.py *)

\* years of the extraction window: end_year = start_year + WindowYears
WindowYears == 2
end_year == start_year + WindowYears

\* DatetimeIndex.normalize(): time of day set to midnight
normalize(s) == [i \in 1..Len(s) |-> [s[i] EXCEPT !.tod = 0]]

InWindow(r) ==
    /\ TsLeq([day |-> Timestamp(start_year, 9, 1), tod |-> 0], r)
    /\ TsLeq(r, [day |-> Timestamp(end_year, 8, 31), tod |-> 0])

\* extract_trend_data for a basin found in the source list: the possible
\* returned series (one, or several when sort_index meets equal timestamps)
extract_trend_data(series, is_dt) ==
    LET indexed == IF is_dt THEN {series} ELSE sort_index(normalize(series))
    IN  {SelectSeq(t, InWindow) : t \in indexed}

\* extract_trend_data, the check after the filter: the rows of the filtered
\* series that lie outside the window
outside(trend_series) == SelectSeq(trend_series, LAMBDA r : ~InWindow(r))

\* what extract_trend_data prints for the series it returns
ExtractMessages(trend_series) ==
    IF outside(trend_series) # <<>>
    THEN <<"Values outside defined date range!">>
    ELSE <<>>

----------------------------------------------------------------------------
(* process_basins: the time-series file of one basin *)

\* assign_hydrological_year(trend_series.to_frame(name=var_name))
assign_hydrological_year(series) ==
    [i \in 1..Len(series) |->
        [ts |-> series[i],
         value |-> series[i].value,
         hydro_year |-> HydroYearOf(series[i].day, DefaultStartMonth),
         hydro_year_str |-> HydroYearStr(HydroYearOf(series[i].day, DefaultStartMonth))]]

\* df.to_csv(..., date_format='%Y-%m-%d'): the index is written as a civil date
to_csv(df) ==
    [i \in 1..Len(df) |->
        [date |-> <<YearOf(df[i].ts.day), MonthOf(df[i].ts.day), DayOf(df[i].ts.day)>>,
         value |-> df[i].value,
         hydro_year |-> df[i].hydro_year,
         hydro_year_str |-> df[i].hydro_year_str]]

\* pd.read_csv(file_path, parse_dates=['date'])
read_csv(file) ==
    [i \in 1..Len(file) |->
        [date |-> Timestamp(file[i].date[1], file[i].date[2], file[i].date[3]),
         value |-> file[i].value,
         hydro_year |-> file[i].hydro_year,
         hydro_year_str |-> file[i].hydro_year_str]]

\* the basin of the run: basin_id is taken from the file name
basin_id == "4025"

\* process_basins for the basin of the run: the file is written only when
\* the extracted series is not empty
ProcessBasins ==
    /\ pc = "load"
    /\ \E trend_series \in extract_trend_data(source, index_is_dt) :
          /\ csv' = IF trend_series # <<>>
                    THEN Some(to_csv(assign_hydrological_year(trend_series)))
                    ELSE None
          /\ printed' = printed \o ExtractMessages(trend_series)
                            \o IF trend_series # <<>>
                               THEN <<basin_id \o ": Time series saved">>
                               ELSE <<basin_id \o ": No data in selected period">>
    /\ pc' = "series_saved"
    /\ UNCHANGED <<source, index_is_dt, var_name, groups, result_rows>>
    /\ UNCHANGED <<dateVars, trendVars, monthVars, listVars>>

----------------------------------------------------------------------------
(* Shared by the extractors: one group of df.groupby('hydro_year') *)


\* keys of df.groupby('hydro_year'), ascending
HydroYears(df) == {df[i].hydro_year : i \in 1..Len(df)}

GroupByCumulative(df, year) == SelectSeq(df, LAMBDA r : r.hydro_year <= year)

\* the group of one key: the rows carrying that label, in file order
GroupBy(df, year) == SelectSeq(df, LAMBDA r : r.hydro_year = year)

\* the possible results of group.sort_values('date') for every key
SortedGroups(df) ==
    {f \in [HydroYears(df) -> UNION {sort_values(GroupBy(df, y)) : y \in HydroYears(df)}] :
        \A y \in HydroYears(df) : f[y] \in sort_values(GroupBy(df, y))}

NonNaN(g) == {i \in 1..Len(g) : ~IsNone(g[i].value)}

\* Series.max() / Series.min(): NaN is skipped, NaN when nothing is left
SeriesMax(g) ==
    IF NonNaN(g) = {} THEN None ELSE Some(SetMax({Val(g[i].value) : i \in NonNaN(g)}))
SeriesMin(g) ==
    IF NonNaN(g) = {} THEN None ELSE Some(SetMin({Val(g[i].value) : i \in NonNaN(g)}))

\* Series.sum(): NaN is skipped
SeriesSum(g) == SeqSum([i \in 1..Len(g) |-> IF IsNone(g[i].value) THEN 0 ELSE Val(g[i].value)])

\* Series.idxmax() / idxmin(): position of the first occurrence of the
\* extremum among the non-missing values (raises when all are missing)
idxmax(g) == SetMin({i \in NonNaN(g) : g[i].value = SeriesMax(g)})
idxmin(g) == SetMin({i \in NonNaN(g) : g[i].value = SeriesMin(g)})

\* Series.diff(): missing at the first position and next to a missing value
diff(g) ==
    [i \in 1..Len(g) |->
        IF i = 1 \/ IsNone(g[i].value) \/ IsNone(g[i - 1].value) THEN None
        ELSE Some(Val(g[i].value) - Val(g[i - 1].value))]

\* x > 0 on a difference: False for a missing one
Positive(x) == ~IsNone(x) /\ Val(x) > 0

\* group['date'].dt.month.isin(months)
InMonths(g, months) == SelectSeq(g, LAMBDA r : MonthOf(r.date) \in months)

SeasonNames == {"DJF", "MAM", "JJA", "SON"}

\* seasons = {"DJF": [12, 1, 2], "MAM": [3, 4, 5], "JJA": [6, 7, 8], "SON": [9, 10, 11]}
SeasonMonths(season) ==
    CASE season = "DJF" -> {12, 1, 2}
      [] season = "MAM" -> {3, 4, 5}
      [] season = "JJA" -> {6, 7, 8}
      [] season = "SON" -> {9, 10, 11}

\* day_in_hydro_year with the default start month
HydroDay(t) == day_in_hydro_year(Some(t), DefaultStartMonth)

----------------------------------------------------------------------------
(* parameter_trends/swe_parameters.py: calculate_swe_parameters *)

MeltReachedStrict(g, peak_date, peak_value, num, den) ==
    SelectSeq(g, LAMBDA r : /\ r.date > peak_date
                            /\ ~IsNone(r.value)
                            /\ den * Val(r.value) < num * peak_value)

MeltReachedAnywhere(g, peak_date, peak_value, num, den) ==
    SelectSeq(g, LAMBDA r : ~IsNone(r.value) /\ den * Val(r.value) <= num * peak_value)

\* after_peak[after_peak['swe'] <= peak_value * num/den]: the rows after the
\* peak date at or below the fraction num/den of the peak value
MeltReached(g, peak_date, peak_value, num, den) ==
    SelectSeq(g, LAMBDA r : /\ r.date > peak_date
                            /\ ~IsNone(r.value)
                            /\ den * Val(r.value) <= num * peak_value)

AccStartIndexFromFirst(g) ==
    LET swe_diff == diff(g)
        pos == {i \in 1..Len(g) : i = 1 \/ Positive(swe_diff[i])}
    IN  IF pos = {} THEN None ELSE Some(SetMin(pos))

\* for i in range(1, len(group)): if group.loc[i, 'swe_diff'] > 0: ... break
AccStartIndex(g) ==
    LET swe_diff == diff(g)
        pos == {i \in 2..Len(g) : Positive(swe_diff[i])}
    IN  IF pos = {} THEN None ELSE Some(SetMin(pos))

AccumPeriodBeforePeak(g, acc_start_date, peak_date) ==
    SortedList({i \in 1..Len(g) : g[i].date >= acc_start_date /\ g[i].date < peak_date})

\* positions of accum_period = group[(date >= acc_start_date) & (date <= peak_date)]
AccumPeriod(g, acc_start_date, peak_date) ==
    SortedList({i \in 1..Len(g) : g[i].date >= acc_start_date /\ g[i].date <= peak_date})

\* swe_values.argmax() of numpy: the first NaN when there is one, else the
\* first maximum (position within the accumulation period)
argmax(g, period) ==
    LET nans == {k \in 1..Len(period) : IsNone(g[period[k]].value)}
        vals == {Val(g[period[k]].value) : k \in 1..Len(period)}
    IN  IF nans # {} THEN SetMin(nans)
        ELSE SetMin({k \in 1..Len(period) : Val(g[period[k]].value) = SetMax(vals)})

ConstantSnowfallIndexStrict(g, period) ==
    LET imax == argmax(g, period)
        swe_diff == diff(g)
        ok == {k \in 1..Len(period) :
                 /\ Positive(swe_diff[period[k]])
                 /\ \A j \in k..imax :
                       /\ ~IsNone(g[period[j]].value)
                       /\ Val(g[period[j]].value) > Val(g[period[k]].value)}
    IN  IF ok = {} THEN None ELSE Some(period[SetMin(ok)])

\* the constant-snowfall scan over the accumulation period: position in the
\* group of the first row with positive difference from which no value up to
\* position imax is below (or missing against) the row's own value
ConstantSnowfallIndex(g, period) ==
    LET imax == argmax(g, period)
        swe_diff == diff(g)
        ok == {k \in 1..Len(period) :
                 /\ Positive(swe_diff[period[k]])
                 /\ \A j \in k..imax :
                       /\ ~IsNone(g[period[j]].value)
                       /\ Val(g[period[j]].value) >= Val(g[period[k]].value)}
    IN  IF ok = {} THEN None ELSE Some(period[SetMin(ok)])

\* assign_season(month)
assign_season(month) ==
    IF month \in {12, 1, 2} THEN "DJF"
    ELSE IF month \in {3, 4, 5} THEN "MAM"
    ELSE IF month \in {6, 7, 8} THEN "JJA"
    ELSE "SON"

\* season_dict: four keys for every season that has rows in the group; both
\* timings are taken at the annual idxmax / idxmin of the group
season_dict_one(g, season) ==
    LET rows == SelectSeq(g, LAMBDA r : assign_season(MonthOf(r.date)) = season)
    IN  IF rows = <<>> THEN <<>>
        ELSE (season \o "_min_swe") :> SeriesMin(rows)
          @@ (season \o "_max_swe") :> SeriesMax(rows)
          @@ (season \o "_timing_max_swe") :> HydroDay(g[idxmax(g)].date)
          @@ (season \o "_timing_min_swe") :> HydroDay(g[idxmin(g)].date)

season_dict(g) ==
    season_dict_one(g, "DJF") @@ season_dict_one(g, "MAM")
        @@ season_dict_one(g, "JJA") @@ season_dict_one(g, "SON")

SweRaisesOnlyAllMissing(g) == NonNaN(g) = {}

\* the statements of the loop body that raise: idxmax of an all-missing
\* column, and argmax of an empty accumulation period
SweRaises(g) ==
    \/ NonNaN(g) = {}
    \/ /\ ~IsNone(AccStartIndex(g))
       /\ AccumPeriod(g, g[Val(AccStartIndex(g))].date, g[idxmax(g)].date) = <<>>

\* the ParameterRow appended for one sorted group
SweRow(year, g) ==
    LET max_row == g[idxmax(g)]
        min_row == g[idxmin(g)]
        summer == InMonths(g, {6, 7, 8})
        summer_diff == diff(summer)
        summer_snowfall == {i \in 1..Len(summer) : Positive(summer_diff[i])}
        peak_date == max_row.date
        peak_value == Val(max_row.value)
        swe50_row == MeltReached(g, peak_date, peak_value, 1, 2)
        swe10_row == MeltReached(g, peak_date, peak_value, 1, 10)
        swe50_date == IF swe50_row # <<>> THEN Some(swe50_row[1].date) ELSE None
        swe10_date == IF swe10_row # <<>> THEN Some(swe10_row[1].date) ELSE None
        swe_diff == diff(g)
        acc_start == AccStartIndex(g)
        acc_start_date == IF IsNone(acc_start) THEN None ELSE Some(g[Val(acc_start)].date)
        accum_period == IF IsNone(acc_start) THEN <<>>
                        ELSE AccumPeriod(g, Val(acc_start_date), peak_date)
        snowfall_days == Cardinality({k \in 1..Len(accum_period) :
                                          Positive(swe_diff[accum_period[k]])})
        constant_snowfall == IF IsNone(acc_start) THEN None
                             ELSE ConstantSnowfallIndex(g, accum_period)
        constant_snowfall_date ==
            IF IsNone(constant_snowfall) THEN None ELSE Some(g[Val(constant_snowfall)].date)
    IN  [basin_id |-> Some(basin_id),
         hydro_year |-> Some(year),
         hydro_year_str |-> Some(g[1].hydro_year_str),
         max_swe |-> Some(peak_value),
         date_of_max_swe |-> Some(peak_date),
         timing_of_max_swe |-> HydroDay(peak_date),
         min_swe |-> min_row.value,
         date_of_min_swe |-> Some(min_row.date),
         timing_of_min_swe |-> HydroDay(min_row.date),
         melt_duration_to_swe50 |->
             IF IsNone(swe50_date) THEN None ELSE Some(Val(swe50_date) - peak_date),
         date_swe50 |-> swe50_date,
         timing_swe50 |-> day_in_hydro_year(swe50_date, DefaultStartMonth),
         melt_duration_to_swe10 |->
             IF IsNone(swe10_date) THEN None ELSE Some(Val(swe10_date) - peak_date),
         date_swe10 |-> swe10_date,
         timing_swe10 |-> day_in_hydro_year(swe10_date, DefaultStartMonth),
         accumulation_start_date |-> acc_start_date,
         timing_accumulation_start |-> day_in_hydro_year(acc_start_date, DefaultStartMonth),
         accumulation_duration |->
             IF IsNone(acc_start_date) THEN None ELSE Some(peak_date - Val(acc_start_date)),
         snowfall_days_accumulation |->
             IF IsNone(acc_start) THEN None ELSE Some(snowfall_days),
         snowfall_percent_accumulation |->
             IF IsNone(acc_start) \/ accum_period = <<>> THEN None
             ELSE Some(<<snowfall_days, Len(accum_period)>>),
         constant_snowfall_start_date |-> constant_snowfall_date,
         timing_constant_snowfall_start |->
             day_in_hydro_year(constant_snowfall_date, DefaultStartMonth),
         summer_snowfall_accumulation |->
             Some(SeqSum([i \in 1..Len(summer) |->
                            IF i \in summer_snowfall THEN Val(summer_diff[i]) ELSE 0])),
         number_of_days_summer_snowfall |-> Some(Cardinality(summer_snowfall))]
        @@ season_dict(g)

\* pd.DataFrame(result_rows): the columns are the union of the keys of the
\* dictionaries, and a row without a key holds a missing value there
DataFrame(rows) ==
    LET columns == UNION {DOMAIN rows[i] : i \in 1..Len(rows)}
    IN  [i \in 1..Len(rows) |->
            [k \in columns |-> IF k \in DOMAIN rows[i] THEN rows[i][k] ELSE None]]

\* the groups of the basin's file, sorted by date; no file, no group
FileGroups == IF IsNone(csv) THEN {<<>>} ELSE SortedGroups(read_csv(Val(csv)))

\* rows are appended for the years in ascending order, up to the first year
\* whose loop body raises: the number of years completed
Completed(years, raising) ==
    LET bad == {i \in 1..Len(years) : years[i] \in raising}
    IN  IF bad = {} THEN Len(years) ELSE SetMin(bad) - 1

\* the end of an extractor run on the basin's file: the table is written
\* unless an exception ended the run
Extract(sorted, rows, completed) ==
    /\ pc = "series_saved"
    /\ groups' = sorted
    /\ result_rows' = rows
    /\ pc' = IF completed THEN "params_saved" ELSE "raised"
    /\ UNCHANGED <<source, index_is_dt, var_name, csv, printed>>
    /\ UNCHANGED <<dateVars, trendVars, monthVars, listVars>>

CalculateSweParameters ==
    /\ var_name = "swe"
    /\ \E sorted \in FileGroups :
          LET years == SortedList(DOMAIN sorted)
              n == Completed(years, {y \in DOMAIN sorted : SweRaises(sorted[y])})
          IN  Extract(sorted,
                      DataFrame([i \in 1..n |-> SweRow(years[i], sorted[years[i]])]),
                      n = Len(years))

----------------------------------------------------------------------------
(* calc_month_distance, and the monthly windows of a group *)

calc_month_distance_calendar(month1, month2) ==
    IF month2 >= month1 THEN month2 - month1 ELSE month1 - month2

\* calc_month_distance(month1, month2)
calc_month_distance(month1, month2) ==
    LET hydro_month1 == IF month1 >= 9 THEN month1 - 8 ELSE month1 + 4
        hydro_month2 == IF month2 >= 9 THEN month2 - 8 ELSE month2 + 4
    IN  IF hydro_month2 >= hydro_month1 THEN hydro_month2 - hydro_month1
        ELSE hydro_month1 - hydro_month2

\* keys of group.groupby(group['date'].dt.month)
MonthsOf(g) == {MonthOf(g[i].date) : i \in 1..Len(g)}

\* monthly sum of one calendar month of the group
MonthSum(g, m) == SeriesSum(InMonths(g, {m}))

\* first month, in calendar order, whose sum is the largest / the smallest
MaxSumMonth(g) ==
    SetMin({m \in MonthsOf(g) : \A n \in MonthsOf(g) : MonthSum(g, n) <= MonthSum(g, m)})
MinSumMonth(g) ==
    SetMin({m \in MonthsOf(g) : \A n \in MonthsOf(g) : MonthSum(g, n) >= MonthSum(g, m)})

\* Series.mean(): NaN is skipped; kept as the pair (sum, count)
SeriesMean(g) ==
    IF NonNaN(g) = {} THEN None ELSE Some(<<SeriesSum(g), Cardinality(NonNaN(g))>>)

\* a window with rows but without a value: idxmax / .loc raises on it
WindowRaises(rows) == rows # <<>> /\ NonNaN(rows) = {}

\* the loop body raises on an all-missing year, and on a season or a month
\* that has rows but no value
WindowsRaise(g) ==
    \/ NonNaN(g) = {}
    \/ \E season \in SeasonNames : WindowRaises(InMonths(g, SeasonMonths(season)))

----------------------------------------------------------------------------
(* parameter_trends/precipitation_parameters.py: calculate_precip_parameters *)

PrecipRaises(g) ==
    \/ WindowsRaise(g)
    \/ \E m \in MonthsOf(g) : WindowRaises(InMonths(g, {m}))

\* row[f"{season}_{metric}"] for metric in ["sum", "max", "min"]
precip_season(g, season) ==
    LET season_group == InMonths(g, SeasonMonths(season))
    IN  IF season_group # <<>>
        THEN (season \o "_sum") :> Some(SeriesSum(season_group))
          @@ (season \o "_max") :> season_group[idxmax(season_group)].value
          @@ (season \o "_min") :> season_group[idxmin(season_group)].value
        ELSE (season \o "_sum") :> None
          @@ (season \o "_max") :> None
          @@ (season \o "_min") :> None

\* row[f"month_{month}_{metric}"] for metric in ["sum", "max", "min"]
precip_month(g, month) ==
    LET month_group == InMonths(g, {month})
        key == "month_" \o ToString(month)
    IN  IF month_group # <<>>
        THEN (key \o "_sum") :> Some(SeriesSum(month_group))
          @@ (key \o "_max") :> month_group[idxmax(month_group)].value
          @@ (key \o "_min") :> month_group[idxmin(month_group)].value
        ELSE (key \o "_sum") :> None
          @@ (key \o "_max") :> None
          @@ (key \o "_min") :> None

RECURSIVE precip_months(_, _)
precip_months(g, month) ==
    IF month = 0 THEN <<>> ELSE precip_months(g, month - 1) @@ precip_month(g, month)

\* the monthly sums of the months with rows, in calendar order
MonthSums(g) == LET ms == SortedList(MonthsOf(g)) IN [i \in 1..Len(ms) |-> MonthSum(g, ms[i])]

\* the ParameterRow of the precipitation family for one sorted group
PrecipRow(year, g) ==
    LET max_row == g[idxmax(g)]
        min_row == g[idxmin(g)]
        max_month == MaxSumMonth(g)
        min_month == MinSumMonth(g)
        arr == MonthSums(g)
    IN  [basin_id |-> Some(basin_id),
         hydro_year |-> Some(year),
         hydro_year_str |-> Some(g[1].hydro_year_str),
         annual_sum |-> Some(SeriesSum(g)),
         annual_mean |-> SeriesMean(g),
         annual_max |-> max_row.value,
         annual_max_date |-> Some(max_row.date),
         timing_annual_max |-> HydroDay(max_row.date),
         annual_min |-> min_row.value,
         annual_min_date |-> Some(min_row.date),
         timing_annual_min |-> HydroDay(min_row.date),
         \* arr.std() / arr.mean(): NaN when the sums are all 0
         monthly_cv |-> IF SeqSum(arr) = 0 THEN None ELSE Some(<<"std/mean", arr>>),
         \* 100 * x / x: 100, NaN when the sums are all 0
         pci |-> IF SeqSum(arr) = 0 THEN None ELSE Some(100),
         max_month |-> Some(max_month),
         min_month |-> Some(min_month),
         max_month_sum |-> Some(MonthSum(g, max_month)),
         min_month_sum |-> Some(MonthSum(g, min_month)),
         month_sum_difference |-> Some(MonthSum(g, max_month) - MonthSum(g, min_month)),
         month_difference |-> Some(calc_month_distance(max_month, min_month))]
        @@ precip_season(g, "DJF") @@ precip_season(g, "MAM")
        @@ precip_season(g, "JJA") @@ precip_season(g, "SON")
        @@ precip_months(g, 12)

CalculatePrecipParameters ==
    /\ var_name = "rain"
    /\ \E sorted \in FileGroups :
          LET years == SortedList(DOMAIN sorted)
              n == Completed(years, {y \in DOMAIN sorted : PrecipRaises(sorted[y])})
          IN  Extract(sorted,
                      DataFrame([i \in 1..n |-> PrecipRow(years[i], sorted[years[i]])]),
                      n = Len(years))

----------------------------------------------------------------------------
(* analysis_basins/discharge_parameters.py: calculate_discharge_parameters *)

DischargeRaises(g) == WindowsRaise(g)

\* seasonal_means / seasonal_max / seasonal_min of one season
discharge_season(g, season) ==
    LET season_data == InMonths(g, SeasonMonths(season))
        s_max_row == season_data[idxmax(season_data)]
        s_min_row == season_data[idxmin(season_data)]
    IN  IF season_data # <<>>
        THEN (season \o "_mean") :> SeriesMean(season_data)
          @@ (season \o "_max") :> s_max_row.value
          @@ (season \o "_max_date") :> Some(s_max_row.date)
          @@ (season \o "_max_day") :> HydroDay(s_max_row.date)
          @@ (season \o "_min") :> s_min_row.value
          @@ (season \o "_min_date") :> Some(s_min_row.date)
          @@ (season \o "_min_day") :> HydroDay(s_min_row.date)
        ELSE (season \o "_mean") :> None
          @@ (season \o "_max") :> None
          @@ (season \o "_max_date") :> None
          @@ (season \o "_max_day") :> None
          @@ (season \o "_min") :> None
          @@ (season \o "_min_date") :> None
          @@ (season \o "_min_day") :> None

\* the ParameterRow of the discharge family for one sorted group
DischargeRow(year, g) ==
    LET max_row == g[idxmax(g)]
        min_row == g[idxmin(g)]
        max_discharge_month == MaxSumMonth(g)
        min_discharge_month == MinSumMonth(g)
    IN  [basin_id |-> Some(basin_id),
         hydro_year |-> Some(year),
         hydro_year_str |-> Some(g[1].hydro_year_str),
         max_discharge |-> max_row.value,
         date_of_max |-> Some(max_row.date),
         day_of_max |-> HydroDay(max_row.date),
         min_discharge |-> min_row.value,
         date_of_min |-> Some(min_row.date),
         day_of_min |-> HydroDay(min_row.date),
         annual_mean |-> SeriesMean(g),
         annual_sum |-> Some(SeriesSum(g)),
         max_discharge_month |-> Some(max_discharge_month),
         max_discharge_month_sum |-> Some(MonthSum(g, max_discharge_month)),
         min_discharge_month |-> Some(min_discharge_month),
         min_discharge_month_sum |-> Some(MonthSum(g, min_discharge_month)),
         discharge_month_diff |->
             Some(MonthSum(g, max_discharge_month) - MonthSum(g, min_discharge_month)),
         month_distance |->
             Some(calc_month_distance(max_discharge_month, min_discharge_month))]
        @@ discharge_season(g, "DJF") @@ discharge_season(g, "MAM")
        @@ discharge_season(g, "JJA") @@ discharge_season(g, "SON")

CalculateDischargeParameters ==
    /\ var_name = "discharge"
    /\ \E sorted \in FileGroups :
          LET years == SortedList(DOMAIN sorted)
              n == Completed(years, {y \in DOMAIN sorted : DischargeRaises(sorted[y])})
          IN  Extract(sorted,
                      DataFrame([i \in 1..n |-> DischargeRow(years[i], sorted[years[i]])]),
                      n = Len(years))

----------------------------------------------------------------------------
(* SpecSwe: the SWE run of main() on one basin, for every bounded series *)

\* observations of a series
MaxObs == 4
\* largest value of an observation
MaxSwe == 2
\* number of sample dates in use
NumDates == 6

\* sample dates as (year - start_year, month, day), ascending: the first day
\* of the window, one date in every season, the last day of a hydrological
\* year and the first day of the next one
SampleDates ==
    << <<0, 9, 1>>, <<1, 1, 15>>, <<1, 5, 31>>, <<1, 6, 1>>, <<1, 8, 31>>,
       <<1, 9, 1>>, <<2, 1, 15>>, <<2, 8, 31>> >>

SampleDay(k) ==
    Timestamp(start_year + SampleDates[k][1], SampleDates[k][2], SampleDates[k][3])

NumUsedDates == IF NumDates < Len(SampleDates) THEN NumDates ELSE Len(SampleDates)

\* values of an observation: NaN (None) and 0..MaxSwe
SweValues == {None} \cup {Some(v) : v \in 0..MaxSwe}

\* load_time_series: one more observation of the basin's daily series, which
\* holds at most one observation per date, in date order
LoadDaily(max_obs) ==
    /\ pc = "load"
    /\ Len(source) < max_obs
    /\ \E k \in 1..NumUsedDates, x \in SweValues :
          /\ source # <<>> => source[Len(source)].day < SampleDay(k)
          /\ source' = Append(source, [day |-> SampleDay(k), tod |-> 0, value |-> x])
    /\ UNCHANGED <<pc, index_is_dt, var_name, csv, groups, result_rows, printed>>
    /\ UNCHANGED <<dateVars, trendVars, monthVars, listVars>>

LoadSwe == LoadDaily(MaxObs)

InitSwe ==
    /\ pc = "load"
    /\ source = <<>>
    /\ index_is_dt = TRUE
    /\ var_name = "swe"
    /\ csv = None
    /\ groups = <<>>
    /\ result_rows = <<>>
    /\ printed = <<>>
    /\ IdleDates
    /\ IdleTrend
    /\ IdleMonths
    /\ IdleLists

NextSwe == LoadSwe \/ ProcessBasins \/ CalculateSweParameters

SpecSwe == InitSwe /\ [][NextSwe]_vars

----------------------------------------------------------------------------
(* SpecSeries: series in any row order, with times of day and repeated     *)
(* dates, on both sides of the extraction window                           *)

\* observations of a raw series
MaxRaw == 3

\* (year - start_year, month, day): the first day of the window, the two
\* days around a hydrological-year boundary, the last day of the default
\* window and the day after it
SeriesDates ==
    {<<0, 9, 1>>, <<1, 8, 31>>, <<1, 9, 1>>, <<2, 8, 31>>, <<2, 9, 1>>}

\* hours of the timestamps: midnight and noon
TimesOfDay == {0, 12}

\* the series is a function of time: one value at midnight, another at noon
ValueAt(h) == Some(IF h = 0 THEN 0 ELSE 1)

\* load_time_series: one more row of the basin's series, in any order; the
\* series holds one row per timestamp
LoadSeries ==
    /\ pc = "load"
    /\ Len(source) < MaxRaw
    /\ \E d \in SeriesDates, h \in TimesOfDay :
          LET row == [day |-> Timestamp(start_year + d[1], d[2], d[3]),
                      tod |-> h, value |-> ValueAt(h)]
          IN  /\ \A i \in 1..Len(source) : source[i] # row
              /\ source' = Append(source, row)
    /\ UNCHANGED <<pc, index_is_dt, var_name, csv, groups, result_rows, printed>>
    /\ UNCHANGED <<dateVars, trendVars, monthVars, listVars>>

InitSeries ==
    /\ pc = "load"
    /\ source = <<>>
    /\ index_is_dt \in BOOLEAN
    /\ var_name = "swe"
    /\ csv = None
    /\ groups = <<>>
    /\ result_rows = <<>>
    /\ printed = <<>>
    /\ IdleDates
    /\ IdleTrend
    /\ IdleMonths
    /\ IdleLists

NextSeries == LoadSeries \/ ProcessBasins \/ CalculateSweParameters

SpecSeries == InitSeries /\ [][NextSeries]_vars

----------------------------------------------------------------------------
(* SpecFamilies: the three extractors on the same bounded daily series *)

\* observations of a series of the family runs
MaxFamilyObs == 3

\* var_name of the three main() functions
Families == {"swe", "rain", "discharge"}

LoadFamily == LoadDaily(MaxFamilyObs)

InitFamilies ==
    /\ pc = "load"
    /\ source = <<>>
    /\ index_is_dt = TRUE
    /\ var_name \in Families
    /\ csv = None
    /\ groups = <<>>
    /\ result_rows = <<>>
    /\ printed = <<>>
    /\ IdleDates
    /\ IdleTrend
    /\ IdleMonths
    /\ IdleLists

NextFamilies ==
    \/ LoadFamily
    \/ ProcessBasins
    \/ CalculateSweParameters
    \/ CalculatePrecipParameters
    \/ CalculateDischargeParameters

SpecFamilies == InitFamilies /\ [][NextFamilies]_vars

----------------------------------------------------------------------------
(* SpecDates: the two date functions applied to every date and start month *)

FirstDate == Timestamp(start_year, 1, 1)
LastDate == Timestamp(start_year + NumYears, 12, 31)

\* caller: df['hydro_year'] of the row dated `date`
AssignHydrologicalYear ==
    /\ ~IsNone(date)
    /\ IsNone(hydro_year)
    /\ hydro_year' = Some(HydroYearOf(Val(date), start_month))
    /\ UNCHANGED <<date, start_month, day_ordinal, prev_ordinal>>
    /\ UNCHANGED <<batchVars, trendVars, monthVars, listVars>>

\* caller: day_in_hydro_year(date, start_month)
DayInHydroYear ==
    /\ IsNone(day_ordinal)
    /\ day_ordinal' = day_in_hydro_year(date, start_month)
    /\ UNCHANGED <<date, start_month, hydro_year, prev_ordinal>>
    /\ UNCHANGED <<batchVars, trendVars, monthVars, listVars>>

\* caller: the same function on the following calendar day
NextDay ==
    /\ ~IsNone(date)
    /\ ~IsNone(day_ordinal)
    /\ Val(date) < LastDate
    /\ date' = Some(Val(date) + 1)
    /\ prev_ordinal' = day_ordinal
    /\ day_ordinal' = day_in_hydro_year(date', start_month)
    /\ hydro_year' = None
    /\ UNCHANGED start_month
    /\ UNCHANGED <<batchVars, trendVars, monthVars, listVars>>

InitDates ==
    /\ date \in {None} \cup {Some(t) : t \in FirstDate..LastDate}
    /\ start_month \in 1..12
    /\ hydro_year = None
    /\ day_ordinal = None
    /\ prev_ordinal = None
    /\ IdleBatch
    /\ IdleTrend
    /\ IdleMonths
    /\ IdleLists

NextDates == AssignHydrologicalYear \/ DayInHydroYear \/ NextDay

SpecDates == InitDates /\ [][NextDates]_vars

----------------------------------------------------------------------------
(* SpecDays: the SWE extractor on a series of successive days of one year *)

MaxDays == 7

\* load_time_series: the value of the next day, from 1 September on
LoadDay ==
    /\ pc = "load"
    /\ Len(source) < MaxDays
    /\ \E x \in SweValues :
          source' = Append(source, [day |-> Timestamp(start_year, 9, 1) + Len(source),
                                    tod |-> 0, value |-> x])
    /\ UNCHANGED <<pc, index_is_dt, var_name, csv, groups, result_rows, printed>>
    /\ UNCHANGED <<dateVars, trendVars, monthVars, listVars>>

NextDays == LoadDay \/ ProcessBasins \/ CalculateSweParameters

SpecDays == InitSwe /\ [][NextDays]_vars

----------------------------------------------------------------------------
(* SpecBatch: process_basins over a list of requested basins *)

\* a basin id as a source stores it: a string, or a number, which is kept
\* as its decimal digits
StrId(text) == [type |-> "str", value |-> text]
IntId(n) == [type |-> "int", value |-> ToString(n)]

\* str(item['basin_id'])
str(id) == id.value

\* item['basin_id'] == basin_id, for the requested id, a string: a number
\* never equals a string
IdEquals(id, requested) == id.type = "str" /\ id.value = requested

\* basin_ids_fao, basin_ids_subbasins
BasinIds(time_series_list) ==
    {str(time_series_list[i].basin_id) : i \in 1..Len(time_series_list)}

\* extract_trend_data(source_list, basin_id, ...): the filtered series of the
\* first item with this id, None without such an item
ExtractFromList(source_list, requested) ==
    LET found == {i \in 1..Len(source_list) : IdEquals(source_list[i].basin_id, requested)}
    IN  IF found = {} THEN None
        ELSE Some(CHOOSE t \in extract_trend_data(source_list[SetMin(found)].series, TRUE) :
                      TRUE)

NotFoundSilent(done, requested) == done

\* the else branch of the lookup: a message, then the next basin
NotFound(done, requested) ==
    [done EXCEPT !.printed = Append(@, requested \o ": Not found in FAO or Subbasin datasets")]

\* the body of the loop for one requested basin
ProcessBasin(done, requested, list_fao, list_subbasins) ==
    IF requested \notin BasinIds(list_fao) \cup BasinIds(list_subbasins)
    THEN NotFound(done, requested)
    ELSE LET source_list == IF requested \in BasinIds(list_fao)
                            THEN list_fao ELSE list_subbasins
             trend_series == ExtractFromList(source_list, requested)
         IN  IF ~IsNone(trend_series) /\ Val(trend_series) # <<>>
             THEN [files |-> (requested :> to_csv(assign_hydrological_year(Val(trend_series))))
                                @@ done.files,
                   printed |-> done.printed \o ExtractMessages(Val(trend_series))
                                  \o <<requested \o ": Time series saved">>]
             ELSE [files |-> done.files,
                   printed |-> (done.printed
                                  \o IF IsNone(trend_series) THEN <<>>
                                     ELSE ExtractMessages(Val(trend_series)))
                                  \o <<requested \o ": No data in selected period">>]

\* for basin_id in basins
RECURSIVE ProcessBasinList(_, _, _)
ProcessBasinList(requested, list_fao, list_subbasins) ==
    IF requested = <<>> THEN [files |-> <<>>, printed |-> <<>>]
    ELSE ProcessBasin(ProcessBasinList(SubSeq(requested, 1, Len(requested) - 1),
                                       list_fao, list_subbasins),
                      requested[Len(requested)], list_fao, list_subbasins)

\* process_basins(start_year, end_year, basins, ...)
ProcessBasinsBatch ==
    /\ pc = "batch"
    /\ LET done == ProcessBasinList(basin_list, time_series_list_fao,
                                    time_series_list_subbasins)
       IN  /\ files' = done.files
           /\ printed' = done.printed
    /\ pc' = "batch_done"
    /\ UNCHANGED <<basin_list, time_series_list_fao, time_series_list_subbasins>>
    /\ UNCHANGED <<source, index_is_dt, var_name, csv, groups, result_rows>>
    /\ UNCHANGED <<dateVars, trendVars, monthVars>>

\* the inputs of the batch
MaxBasins == 2
MaxItems == 1

RequestedIds == {"4025", "4018", "042"}
StoredIds == {StrId("4025"), IntId(4025), StrId("042")}

\* a series with one point in the window, and one with a point after it
SeriesInWindow ==
    <<[day |-> Timestamp(start_year, 9, 1), tod |-> 0, value |-> Some(1)]>>
SeriesAfterWindow ==
    <<[day |-> Timestamp(end_year, 9, 1), tod |-> 0, value |-> Some(1)]>>

Items == [basin_id : StoredIds, series : {SeriesInWindow, SeriesAfterWindow}]

ListsUpTo(S, n) == UNION {[1..k -> S] : k \in 0..n}

InitBatch ==
    /\ pc = "batch"
    /\ basin_list \in ListsUpTo(RequestedIds, MaxBasins)
    /\ time_series_list_fao \in ListsUpTo(Items, MaxItems)
    /\ time_series_list_subbasins \in ListsUpTo(Items, MaxItems)
    /\ files = <<>>
    /\ printed = <<>>
    /\ source = <<>>
    /\ index_is_dt = TRUE
    /\ var_name = "swe"
    /\ csv = None
    /\ groups = <<>>
    /\ result_rows = <<>>
    /\ IdleDates
    /\ IdleTrend
    /\ IdleMonths

NextBatch == ProcessBasinsBatch

SpecBatch == InitBatch /\ [][NextBatch]_vars

----------------------------------------------------------------------------
(* SpecMonths: calc_month_distance on every pair of calendar months *)

\* caller: month_distance = calc_month_distance(max_month, min_month)
CalcMonthDistance ==
    /\ IsNone(month_distance)
    /\ month_distance' = Some(calc_month_distance(Val(arg_month1), Val(arg_month2)))
    /\ UNCHANGED <<arg_month1, arg_month2>>
    /\ UNCHANGED <<dateVars, batchVars, trendVars, listVars>>

\* caller: the same function on the two months in the other order
CalcMonthDistanceSwapped ==
    /\ ~IsNone(month_distance)
    /\ arg_month1' = arg_month2
    /\ arg_month2' = arg_month1
    /\ month_distance' = Some(calc_month_distance(Val(arg_month1'), Val(arg_month2')))
    /\ UNCHANGED <<dateVars, batchVars, trendVars, listVars>>

InitMonths ==
    /\ arg_month1 \in {Some(m) : m \in 1..12}
    /\ arg_month2 \in {Some(m) : m \in 1..12}
    /\ month_distance = None
    /\ IdleDates
    /\ IdleBatch
    /\ IdleTrend
    /\ IdleLists

NextMonths == CalcMonthDistance \/ CalcMonthDistanceSwapped

SpecMonths == InitMonths /\ [][NextMonths]_vars

----------------------------------------------------------------------------
(* trend_statistics.py: calculate_trends *)

\* exact fractions <<numerator, denominator>> with a positive denominator,
\* in lowest terms, stand for the floating-point numbers of the code
RECURSIVE GCD(_, _)
GCD(a, b) == IF b = 0 THEN a ELSE GCD(b, a % b)

Abs(n) == IF n < 0 THEN -n ELSE n

Rat(n, d) ==
    LET g == GCD(Abs(n), Abs(d))
        sign == IF d < 0 THEN -1 ELSE 1
    IN  <<(sign * n) \div g, (sign * d) \div g>>

RatOfInt(n) == <<n, 1>>
RatLess(a, b) == a[1] * b[2] < b[1] * a[2]
RatAdd(a, b) == Rat(a[1] * b[2] + b[1] * a[2], a[2] * b[2])
RatSub(a, b) == Rat(a[1] * b[2] - b[1] * a[2], a[2] * b[2])
RatMul(a, b) == Rat(a[1] * b[1], a[2] * b[2])
RatDiv(a, b) == Rat(a[1] * b[2], a[2] * b[1])

\* the k-th smallest element of a non-empty sequence of fractions
KthSmallest(s, k) ==
    CHOOSE e \in {s[i] : i \in 1..Len(s)} :
        /\ Cardinality({i \in 1..Len(s) : RatLess(s[i], e)}) < k
        /\ Cardinality({i \in 1..Len(s) : ~RatLess(e, s[i])}) >= k

\* np.median
median(s) ==
    LET n == Len(s)
    IN  IF n % 2 = 1
        THEN KthSmallest(s, (n + 1) \div 2)
        ELSE RatDiv(RatAdd(KthSmallest(s, n \div 2), KthSmallest(s, n \div 2 + 1)),
                    RatOfInt(2))

\* the input file: one line per (basin, hydrological year) in the order the
\* extractor writes them, ids as digit strings
TrendYears == 3
MaxTableRows == 4
MaxTrendValue == 1

TrendBasins == << <<4, 0, 2, 5>>, <<0, 4, 2>> >>
TableColumns == {"basin_id", "hydro_year", "max_swe"}
VariableLists ==
    {<<"max_swe", "hydro_year">>, <<"hydro_year">>, <<"max_swe", "DJF_max_swe">>,
     <<"DJF_max_swe", "max_swe">>}

\* pd.read_csv on a column of digit strings: the column becomes integer
RECURSIVE ParseInt(_)
ParseInt(digits) ==
    IF digits = <<>> THEN 0
    ELSE 10 * ParseInt(SubSeq(digits, 1, Len(digits) - 1)) + digits[Len(digits)]

read_csv_table(file) ==
    [i \in 1..Len(file) |-> [file[i] EXCEPT !.basin_id = ParseInt(@)]]

\* Series.unique(): the values in order of first appearance
RECURSIVE unique(_)
unique(s) ==
    IF s = <<>> THEN <<>>
    ELSE LET rest == unique(SubSeq(s, 1, Len(s) - 1))
             last == s[Len(s)]
         IN  IF \E i \in 1..Len(rest) : rest[i] = last THEN rest ELSE Append(rest, last)

\* df[df[basin_id_col] == basin] followed by [var].dropna(): the positions
\* of the basin's rows holding a value, in table order
DropNa(df, var, basin) ==
    SelectSeq([i \in 1..Len(df) |-> i],
              LAMBDA i : df[i].basin_id = basin /\ ~IsNone(df[i][var]))

\* a cell as a number
Cell(df, i, col) == Val(df[i][col])

TooFewValuesBelowTwo(series) == Len(series) < 2

\* "Require at least 3 values to calculate trend"
TooFewValues(series) == Len(series) < 3

\* scipy.stats.theilslopes: the median of the slopes of all pairs of points
\* with distinct x, and median(y) - slope * median(x)
PairSlopes(x, y) ==
    LET pairs == {<<i, j>> \in (1..Len(x)) \X (1..Len(x)) : x[j] > x[i]}
        RECURSIVE Listed(_)
        Listed(ps) ==
            IF ps = {} THEN <<>>
            ELSE LET q == CHOOSE q \in ps : TRUE
                 IN  Append(Listed(ps \ {q}), Rat(y[q[2]] - y[q[1]], x[q[2]] - x[q[1]]))
    IN  Listed(pairs)

RatSeq(s) == [i \in 1..Len(s) |-> RatOfInt(s[i])]

theil_sen_slope(x, y) == median(PairSlopes(x, y))
theil_sen_intercept(x, y) ==
    RatSub(median(RatSeq(y)), RatMul(theil_sen_slope(x, y), median(RatSeq(x))))

\* pymannkendall.original_test: the score S over the values in the order
\* given, its variance with the correction for ties, and the squared z
Sign(n) == IF n > 0 THEN 1 ELSE IF n < 0 THEN -1 ELSE 0

mk_score(y) ==
    LET pairs == {<<i, j>> \in (1..Len(y)) \X (1..Len(y)) : i < j}
        RECURSIVE Sum(_)
        Sum(ps) ==
            IF ps = {} THEN 0
            ELSE LET q == CHOOSE q \in ps : TRUE
                 IN  Sign(y[q[2]] - y[q[1]]) + Sum(ps \ {q})
    IN  Sum(pairs)

mk_variance_times_18(y) ==
    LET n == Len(y)
        values == {y[i] : i \in 1..n}
        Ties(v) == Cardinality({i \in 1..n : y[i] = v})
        RECURSIVE Sum(_)
        Sum(vs) ==
            IF vs = {} THEN 0
            ELSE LET v == CHOOSE v \in vs : TRUE
                 IN  Ties(v) * (Ties(v) - 1) * (2 * Ties(v) + 5) + Sum(vs \ {v})
    IN  n * (n - 1) * (2 * n + 5) - Sum(values)

\* the p-value is 2 * (1 - Phi(|z|)); it is carried as z squared, of which it
\* is a strictly decreasing function
z_squared(y) ==
    LET s == mk_score(y)
    IN  IF s = 0 THEN RatOfInt(0)
        ELSE Rat(18 * (Abs(s) - 1) * (Abs(s) - 1), mk_variance_times_18(y))

\* p < 0.05 exactly when |z| > 1.959964
significance_level == <<3841459, 1000000>>
Significant(z2) == RatLess(significance_level, z2)

np_sum(y) == Rat(SeqSum(y), 1)

\* np.mean
np_mean(y) == Rat(SeqSum(y), Len(y))

\* one row of the result table
TrendRow(df, var, basin) ==
    LET series == DropNa(df, var, basin)
        x == [k \in 1..Len(series) |-> Cell(df, series[k], "hydro_year")]
        y == [k \in 1..Len(series) |-> Cell(df, series[k], var)]
    IN  IF TooFewValues(series)
        THEN [basin_id |-> basin,
              theil_sen_slope |-> None,
              theil_sen_intercept |-> None,
              mann_kendall_p |-> None,
              significant |-> FALSE,
              mean |-> None,
              trend_percent |-> None]
        ELSE [basin_id |-> basin,
              theil_sen_slope |-> Some(theil_sen_slope(x, y)),
              theil_sen_intercept |-> Some(theil_sen_intercept(x, y)),
              mann_kendall_p |-> Some(z_squared(y)),
              significant |-> Significant(z_squared(y)),
              mean |-> Some(np_mean(y)),
              trend_percent |-> IF np_mean(y)[1] # 0
                                THEN Some(RatDiv(theil_sen_slope(x, y), np_mean(y)))
                                ELSE None]

\* basin_data[var] raises KeyError for a name that is not a column
KeyError(var, basins) == var \notin TableColumns /\ basins # <<>>

calculate_trends ==
    /\ pc = "table"
    /\ \E vs \in VariableLists :
          LET df == read_csv_table(table)
              basins == unique([i \in 1..Len(df) |-> df[i].basin_id])
              bad == {i \in 1..Len(vs) : KeyError(vs[i], basins)}
              n == IF bad = {} THEN Len(vs) ELSE SetMin(bad) - 1
          IN  /\ variables' = vs
              /\ results' = [var \in {vs[i] : i \in 1..n} |->
                                [b \in 1..Len(basins) |-> TrendRow(df, var, basins[b])]]
              /\ pc' = IF bad = {} THEN "trends_saved" ELSE "raised"
    /\ UNCHANGED <<table, source, index_is_dt, var_name, csv, groups, result_rows, printed>>
    /\ UNCHANGED <<dateVars, monthVars, listVars>>

\* one more line of the input file
LoadTable ==
    /\ pc = "table"
    /\ Len(table) < MaxTableRows
    /\ \E b \in 1..Len(TrendBasins), year \in 1..TrendYears,
          v \in {None} \cup {Some(n) : n \in 0..MaxTrendValue} :
          /\ table # <<>> =>
                LET last == table[Len(table)]
                IN  \E a \in 1..b :
                        /\ TrendBasins[a] = last.basin_id
                        /\ a = b => Val(last.hydro_year) < start_year + year
          /\ table' = Append(table, [basin_id |-> TrendBasins[b],
                                     hydro_year |-> Some(start_year + year),
                                     max_swe |-> v])
    /\ UNCHANGED <<variables, results, batchVars, dateVars, monthVars, listVars>>

InitTrend ==
    /\ pc = "table"
    /\ source = <<>>
    /\ index_is_dt = TRUE
    /\ var_name = "swe"
    /\ csv = None
    /\ groups = <<>>
    /\ result_rows = <<>>
    /\ printed = <<>>
    /\ IdleDates
    /\ IdleTrend
    /\ IdleMonths
    /\ IdleLists

NextTrend == LoadTable \/ calculate_trends

SpecTrend == InitTrend /\ [][NextTrend]_vars

----------------------------------------------------------------------------
(* Claims on the date functions *)

IsBoundary(t, sm) == MonthOf(t) = sm /\ DayOf(t) = 1

\* the hydrological year that ends on day t (the day before a boundary)
\* contains a 29 February
EndingYearHasLeapDay(t, sm) ==
    LET y == YearOf(t + 1)
    IN  IF sm >= 3 THEN IsLeap(y) ELSE IsLeap(y - 1)

\* C1: for every date and every start_month in 1..12 the assigned hydro_year
\* is year+1 when month >= start_month and year when month < start_month;
\* with start_month 9, 1 September 1981 is labelled 1982 and 31 August 1981
\* is labelled 1981.
C1_HydroYearRule ==
    (~IsNone(date) /\ ~IsNone(hydro_year)) =>
        LET t == Val(date)
        IN  /\ (MonthOf(t) >= start_month) => (Val(hydro_year) = YearOf(t) + 1)
            /\ (MonthOf(t) < start_month) => (Val(hydro_year) = YearOf(t))
            /\ (start_month = 9 /\ t = Timestamp(1981, 9, 1)) => (Val(hydro_year) = 1982)
            /\ (start_month = 9 /\ t = Timestamp(1981, 8, 31)) => (Val(hydro_year) = 1981)

C1_Witness ==
    /\ start_month = 9
    /\ date = Some(Timestamp(1981, 9, 1))
    /\ hydro_year = Some(1982)

\* C2: day_in_hydro_year is 1 on the first day of start_month, is one more
\* than on the day before on every other day, is 365 on the last day before
\* a boundary, or 366 when that hydrological year contains 29 February, and
\* is always at least 1.
C2_DayOrdinalRule ==
    (~IsNone(date) /\ ~IsNone(day_ordinal)) =>
        LET t == Val(date)
            n == Val(day_ordinal)
        IN  /\ n >= 1
            /\ IsBoundary(t, start_month) => (n = 1)
            /\ (~IsNone(prev_ordinal) /\ ~IsBoundary(t, start_month)) =>
                   (n = Val(prev_ordinal) + 1)
            /\ IsBoundary(t + 1, start_month) =>
                   (n = IF EndingYearHasLeapDay(t, start_month) THEN 366 ELSE 365)

C2_Witness ==
    /\ start_month = 3
    /\ date = Some(Timestamp(1980, 2, 29))
    /\ prev_ordinal = Some(365)
    /\ day_ordinal = Some(366)

----------------------------------------------------------------------------
(* Claims on the grouping by hydrological year (SpecSeries) *)

Extracted == pc \in {"params_saved", "raised"} /\ ~IsNone(csv)

RECURSIVE Flatten(_, _)
Flatten(gs, years) ==
    IF years = <<>> THEN <<>> ELSE gs[Head(years)] \o Flatten(gs, Tail(years))

\* number of rows of a frame that carry the pair (date d, value v)
PairCount(rows, d, v) ==
    Cardinality({i \in 1..Len(rows) : rows[i].date = d /\ rows[i].value = v})

\* C3: the groups of the labelled series, concatenated again, hold every
\* (date, value) pair of the series exactly as often as the series does: no
\* pair is lost, duplicated or placed in two groups, also for unsorted input
\* and repeated dates.
C3_GroupingPreservesPairs ==
    Extracted =>
        LET df == read_csv(Val(csv))
            flat == Flatten(groups, SortedList(DOMAIN groups))
        IN  /\ Len(flat) = Len(df)
            /\ \A i \in 1..Len(df) :
                  PairCount(flat, df[i].date, df[i].value)
                      = PairCount(df, df[i].date, df[i].value)

C3_Witness ==
    /\ Extracted
    /\ Cardinality(DOMAIN groups) = 2
    /\ \E i, j \in 1..Len(source) : i < j /\ TsLess(source[j], source[i])
    /\ \E i, j \in 1..Len(Val(csv)) : i # j /\ Val(csv)[i].date = Val(csv)[j].date

InHydroWindow(d, year) ==
    Timestamp(year - 1, 9, 1) <= d /\ d <= Timestamp(year, 8, 31)

\* C4 as stated: in every processed group the dates are strictly increasing
\* and lie between 1 September of hydro_year-1 and 31 August of hydro_year.
C4_StrictlyIncreasingInWindow ==
    Extracted =>
        \A y \in DOMAIN groups :
            /\ \A i \in 1..(Len(groups[y]) - 1) : groups[y][i].date < groups[y][i + 1].date
            /\ \A i \in 1..Len(groups[y]) : InHydroWindow(groups[y][i].date, y)

\* C4 as amended: in every processed group the dates never decrease and lie
\* between 1 September of hydro_year-1 and 31 August of hydro_year; they are
\* strictly increasing when the basin's series has at most one row per
\* calendar day.
C4_NonDecreasingInWindow ==
    Extracted =>
        \A y \in DOMAIN groups :
            /\ \A i \in 1..(Len(groups[y]) - 1) : groups[y][i].date <= groups[y][i + 1].date
            /\ \A i \in 1..Len(groups[y]) : InHydroWindow(groups[y][i].date, y)
            /\ (\A i, j \in 1..Len(source) : i # j => source[i].day # source[j].day) =>
                  \A i \in 1..(Len(groups[y]) - 1) :
                      groups[y][i].date < groups[y][i + 1].date

C4_Witness ==
    /\ Extracted
    /\ \E y \in DOMAIN groups :
          /\ Len(groups[y]) = 3
          /\ groups[y][1].date = groups[y][2].date
          /\ groups[y][2].date < groups[y][3].date
          /\ groups[y] # GroupBy(read_csv(Val(csv)), y)

----------------------------------------------------------------------------
(* Claims on the rows of the three families (SpecFamilies) *)

\* suffixes of the seasonal extremum keys the rows of a family carry
SeasonExtremumKeys(family) ==
    CASE family = "swe" -> {"_max_swe", "_timing_max_swe", "_min_swe", "_timing_min_swe"}
      [] family = "rain" -> {"_max", "_min"}
      [] family = "discharge" ->
            {"_max", "_max_date", "_max_day", "_min", "_min_date", "_min_day"}

\* the group a row was computed from
GroupOfRow(row) == groups[Val(row.hydro_year)]

\* C5: for every season (and, in the precipitation family, every month)
\* without an observation in the hydrological year, the row carries every
\* extremum key of that window and all of them are null.
C5_EmptyWindowAllNull ==
    \A i \in 1..Len(result_rows) :
        LET row == result_rows[i]
            g == GroupOfRow(row)
        IN  /\ \A season \in SeasonNames :
                  InMonths(g, SeasonMonths(season)) = <<>> =>
                      \A k \in SeasonExtremumKeys(var_name) :
                          /\ (season \o k) \in DOMAIN row
                          /\ IsNone(row[season \o k])
            /\ var_name = "rain" =>
                  \A m \in 1..12 :
                      InMonths(g, {m}) = <<>> =>
                          \A k \in {"_max", "_min"} :
                              /\ ("month_" \o ToString(m) \o k) \in DOMAIN row
                              /\ IsNone(row["month_" \o ToString(m) \o k])

\* a year with one observation in every month
FullYear ==
    [m \in 1..12 |->
        [date |-> Timestamp(IF m >= DefaultStartMonth THEN start_year ELSE start_year + 1,
                            m, 1),
         hydro_year |-> start_year + 1,
         hydro_year_str |-> HydroYearStr(start_year + 1),
         value |-> Some(1)]]

\* the keys of the row of such a year
FamilyKeys(family) ==
    CASE family = "swe" -> DOMAIN SweRow(start_year + 1, FullYear)
      [] family = "rain" -> DOMAIN PrecipRow(start_year + 1, FullYear)
      [] family = "discharge" -> DOMAIN DischargeRow(start_year + 1, FullYear)

\* C6: every ParameterRow of a family has the same set of keys, for every
\* basin and hydrological year, whatever seasons or months have data.
C6_SameKeysInEveryRow ==
    \A i \in 1..Len(result_rows) : DOMAIN result_rows[i] = FamilyKeys(var_name)

----------------------------------------------------------------------------
(* Claims on the SWE rows (SpecSwe) *)

\* dates after the peak date whose SWE is at or below num/den of the peak
DatesAtOrBelow(g, peak_date, peak_value, num, den) ==
    {g[j].date : j \in {k \in 1..Len(g) :
                          /\ g[k].date > peak_date
                          /\ ~IsNone(g[k].value)
                          /\ den * Val(g[k].value) <= num * peak_value}}

MeltRule(row, date_key, duration_key, num, den) ==
    LET g == GroupOfRow(row)
        peak_date == Val(row.date_of_max_swe)
        q == DatesAtOrBelow(g, peak_date, Val(row.max_swe), num, den)
    IN  /\ IsNone(row[date_key]) <=> (q = {})
        /\ IsNone(row[duration_key]) <=> (q = {})
        /\ q # {} => /\ row[date_key] = Some(SetMin(q))
                     /\ row[duration_key] = Some(SetMin(q) - peak_date)

\* C7: for each fraction 0.5 and 0.1 the reported threshold date is the
\* earliest date strictly after the peak date whose SWE is at or below that
\* fraction of the peak value, both searches starting at the peak; the melt
\* duration is that date minus the peak date in days; date and duration are
\* null exactly when no date after the peak reaches the threshold.
C7_MeltThresholdDates ==
    \A i \in 1..Len(result_rows) :
        LET row == result_rows[i]
            g == GroupOfRow(row)
        IN  /\ row.max_swe = SeriesMax(g)
            /\ \E j \in 1..Len(g) : g[j].date = Val(row.date_of_max_swe)
                                    /\ g[j].value = row.max_swe
            /\ MeltRule(row, "date_swe50", "melt_duration_to_swe50", 1, 2)
            /\ MeltRule(row, "date_swe10", "melt_duration_to_swe10", 1, 10)

C7_Witness ==
    \E i \in 1..Len(result_rows) :
        LET row == result_rows[i]
            g == GroupOfRow(row)
            peak_date == Val(row.date_of_max_swe)
        IN  /\ Cardinality(DatesAtOrBelow(g, peak_date, Val(row.max_swe), 1, 2)) = 2
            /\ DatesAtOrBelow(g, peak_date, Val(row.max_swe), 1, 10) = {}
            /\ ~IsNone(row.date_swe50)
            /\ IsNone(row.date_swe10)
            /\ Val(row.melt_duration_to_swe50) > 0

\* positions, from the second on, whose SWE is above the previous one's
Increases(g) ==
    {j \in 2..Len(g) : /\ ~IsNone(g[j].value)
                       /\ ~IsNone(g[j - 1].value)
                       /\ Val(g[j].value) > Val(g[j - 1].value)}

\* C8: accumulation_start_date is the date of the earliest observation, from
\* the second of the year on, whose SWE is strictly greater than that of the
\* observation before it; leading constant or decreasing days are skipped.
C8_AccumulationStart ==
    \A i \in 1..Len(result_rows) :
        LET row == result_rows[i]
            g == GroupOfRow(row)
        IN  Increases(g) # {} =>
                row.accumulation_start_date = Some(g[SetMin(Increases(g))].date)

C8_Witness ==
    \E i \in 1..Len(result_rows) :
        LET row == result_rows[i]
            g == GroupOfRow(row)
        IN  /\ Len(g) = 4
            /\ g[1].value = Some(0)
            /\ g[2].value = Some(0)
            /\ g[3].value = Some(1)
            /\ g[4].value = Some(2)
            /\ row.accumulation_start_date = Some(g[3].date)

AccumulationKeys ==
    {"accumulation_start_date", "timing_accumulation_start", "accumulation_duration",
     "snowfall_days_accumulation", "snowfall_percent_accumulation",
     "constant_snowfall_start_date", "timing_constant_snowfall_start"}

\* C9: a year without a strictly positive day-over-day difference has every
\* accumulation-dependent output null.
C9_NoAccumulationAllNull ==
    \A i \in 1..Len(result_rows) :
        LET row == result_rows[i]
        IN  Increases(GroupOfRow(row)) = {} =>
                \A k \in AccumulationKeys : IsNone(row[k])

C9_Witness ==
    \E i \in 1..Len(result_rows) :
        LET row == result_rows[i]
            g == GroupOfRow(row)
        IN  /\ Len(g) = 3
            /\ g[1].value = Some(2)
            /\ g[2].value = Some(1)
            /\ g[3].value = Some(1)
            /\ \A k \in AccumulationKeys : IsNone(row[k])

----------------------------------------------------------------------------
(* Claims on the trend table (SpecTrend) *)

\* the number of lines of the input file of one basin with a value in a column
ValuesInFile(id, col) ==
    Cardinality({i \in 1..Len(table) :
                    /\ ParseInt(table[i].basin_id) = id
                    /\ ~IsNone(table[i][col])})

BasinsInFile == {ParseInt(table[i].basin_id) : i \in 1..Len(table)}

\* C10: when every name in the column list is a column of the input table,
\* the run ends without an error and holds, for every listed column and
\* every basin id of the table, exactly one result row; with fewer than 3
\* non-missing values of the basin in the column (zero included) the row has
\* slope, intercept, p-value, mean and trend_percent null and significant
\* false.
C10_OneRowPerColumnAndBasin ==
    (/\ pc \in {"trends_saved", "raised"}
     /\ \A i \in 1..Len(variables) : variables[i] \in TableColumns) =>
        /\ pc = "trends_saved"
        /\ \A i \in 1..Len(variables) :
              /\ variables[i] \in DOMAIN results
              /\ LET rows == results[variables[i]]
                 IN  /\ {rows[k].basin_id : k \in 1..Len(rows)} = BasinsInFile
                     /\ \A id \in BasinsInFile :
                           /\ Cardinality({k \in 1..Len(rows) : rows[k].basin_id = id}) = 1
                           /\ ValuesInFile(id, variables[i]) < 3 =>
                                 \A k \in 1..Len(rows) :
                                     rows[k].basin_id = id =>
                                         /\ IsNone(rows[k].theil_sen_slope)
                                         /\ IsNone(rows[k].theil_sen_intercept)
                                         /\ IsNone(rows[k].mann_kendall_p)
                                         /\ IsNone(rows[k].mean)
                                         /\ IsNone(rows[k].trend_percent)
                                         /\ rows[k].significant = FALSE

C10_Witness ==
    /\ pc = "trends_saved"
    /\ variables = <<"max_swe", "hydro_year">>
    /\ Cardinality(BasinsInFile) = 2
    /\ \E a, b \in BasinsInFile :
          /\ ValuesInFile(a, "max_swe") = 2
          /\ ValuesInFile(a, "hydro_year") = 3
          /\ ValuesInFile(b, "max_swe") = 0
          /\ \E k \in 1..Len(results["max_swe"]) :
                /\ results["max_swe"][k].basin_id = a
                /\ IsNone(results["max_swe"][k].theil_sen_slope)
          /\ \E k \in 1..Len(results["max_swe"]) :
                /\ results["max_swe"][k].basin_id = b
                /\ IsNone(results["max_swe"][k].mean)
          /\ \E k \in 1..Len(results["hydro_year"]) :
                /\ results["hydro_year"][k].basin_id = a
                /\ ~IsNone(results["hydro_year"][k].theil_sen_slope)

\* the values of one basin in one column of the input file, as a bag
FileValues(id, col) ==
    {i \in 1..Len(table) : /\ ParseInt(table[i].basin_id) = id
                           /\ ~IsNone(table[i][col])}

RECURSIVE SumOver(_, _)
SumOver(lines, col) ==
    IF lines = {} THEN 0
    ELSE LET i == CHOOSE i \in lines : TRUE
         IN  Val(table[i][col]) + SumOver(lines \ {i}, col)

\* C11: for every basin and column with at least 3 non-missing values the
\* row's mean is the sum of those values divided by their number, and
\* trend_percent is null when the mean is exactly 0 and slope / mean
\* otherwise.
C11_MeanAndTrendPercent ==
    pc = "trends_saved" =>
        \A col \in DOMAIN results :
            \A k \in 1..Len(results[col]) :
                LET row == results[col][k]
                    lines == FileValues(row.basin_id, col)
                    n == Cardinality(lines)
                    total == SumOver(lines, col)
                IN  n >= 3 =>
                        /\ ~IsNone(row.mean)
                        /\ Val(row.mean)[1] * n = total * Val(row.mean)[2]
                        /\ total = 0 => IsNone(row.trend_percent)
                        /\ total # 0 =>
                              /\ ~IsNone(row.trend_percent)
                              /\ ~IsNone(row.theil_sen_slope)
                              /\ Val(row.trend_percent)[1] * Val(row.theil_sen_slope)[2] * total
                                    = Val(row.theil_sen_slope)[1] * n * Val(row.trend_percent)[2]

C11_Witness ==
    /\ pc = "trends_saved"
    /\ variables = <<"max_swe", "hydro_year">>
    /\ \E k \in 1..Len(results["max_swe"]) :
          LET row == results["max_swe"][k]
          IN  /\ Cardinality(FileValues(row.basin_id, "max_swe")) = 3
              /\ row.mean = Some(<<0, 1>>)
              /\ IsNone(row.trend_percent)
              /\ ~IsNone(row.theil_sen_slope)
              /\ ~IsNone(results["hydro_year"][k].trend_percent)

----------------------------------------------------------------------------
(* Claims on calc_month_distance (SpecMonths) *)

\* position of a calendar month in the hydrological year, September = 1
HydroMonth(m) == IF m >= 9 THEN m - 8 ELSE m + 4

\* C12: for all months m1, m2 the result is |h(m2) - h(m1)| with h the
\* position in the hydrological year, h a bijection of 1..12 onto itself
\* with September -> 1 and August -> 12; the result is the same with the
\* arguments exchanged, 0 for equal months, and within 0..11.
C12_MonthDistance ==
    /\ {HydroMonth(m) : m \in 1..12} = 1..12
    /\ HydroMonth(9) = 1
    /\ HydroMonth(8) = 12
    /\ ~IsNone(month_distance) =>
          LET m1 == Val(arg_month1)
              m2 == Val(arg_month2)
              d == Val(month_distance)
          IN  /\ d = Abs(HydroMonth(m2) - HydroMonth(m1))
              /\ d = calc_month_distance(m2, m1)
              /\ m1 = m2 => d = 0
              /\ d \in 0..11

C12_Witness ==
    /\ arg_month1 = Some(8)
    /\ arg_month2 = Some(9)
    /\ month_distance = Some(11)

----------------------------------------------------------------------------
(* Claims on the run of the extractors *)

\* the extractor has run on the basin's file
ExtractorRan == pc \in {"params_saved", "raised"}

\* the years that have a row in the table
YearsWithRow == {Val(result_rows[i].hydro_year) : i \in 1..Len(result_rows)}

\* C13: calculate_swe_parameters never aborts because of one basin-year:
\* whatever the year holds (a first positive difference after the peak, a
\* single observation, only missing values), the run ends normally and every
\* year of the file has its row.
C13_NeverAborts ==
    (ExtractorRan /\ var_name = "swe") =>
        /\ pc = "params_saved"
        /\ YearsWithRow = DOMAIN groups

\* C14: the extractor emits exactly one ParameterRow for every hydro_year
\* label present in the basin's series, and in the SWE family max_swe is
\* non-null in every row whose year has at least one non-missing value.
C14_OneRowPerYear ==
    ExtractorRan =>
        /\ \A y \in DOMAIN groups :
              Cardinality({i \in 1..Len(result_rows) :
                              result_rows[i].hydro_year = Some(y)}) = 1
        /\ Len(result_rows) = Cardinality(DOMAIN groups)
        /\ var_name = "swe" =>
              \A i \in 1..Len(result_rows) :
                  NonNaN(GroupOfRow(result_rows[i])) # {} =>
                      ~IsNone(result_rows[i].max_swe)

----------------------------------------------------------------------------
(* Claims on the trend run (SpecTrend) *)

\* calculate_trends has run
TrendsRan == pc \in {"trends_saved", "raised"}

\* C15: when a name of the column list is not a column of the input table
\* the whole run fails with an error, and no trend results are produced:
\* no file is written for any column.
C15_MissingColumnFailsRun ==
    (TrendsRan /\ \E i \in 1..Len(variables) : variables[i] \notin TableColumns) =>
        /\ pc = "raised"
        /\ DOMAIN results = {}

\* the lines of the table rearranged by a permutation of their positions
Rearranged(df, f) == [i \in 1..Len(df) |-> df[f[i]]]

\* C16: the TrendRow of every (basin, column) is the same for every
\* permutation of the lines of the input table, and significant is true
\* exactly when the p-value is below the threshold.
C16_PermutationInvariant ==
    pc = "trends_saved" =>
        LET df == read_csv_table(table)
        IN  \A col \in DOMAIN results :
                \A k \in 1..Len(results[col]) :
                    LET row == results[col][k]
                    IN  /\ row.significant = (/\ ~IsNone(row.mann_kendall_p)
                                              /\ Significant(Val(row.mann_kendall_p)))
                        /\ \A f \in Permutations(1..Len(df)) :
                              TrendRow(Rearranged(df, f), col, row.basin_id) = row

----------------------------------------------------------------------------
(* Claims on process_basins and extract_trend_data *)

\* a day outside [start_year-09-01, end_year-08-31]
OutsideWindow(day) ==
    day < Timestamp(start_year, 9, 1) \/ day > Timestamp(end_year, 8, 31)

Printed(message) == \E i \in 1..Len(printed) : printed[i] = message

\* C17: the series handed on by extract_trend_data holds only points dated
\* within [start_year-09-01, end_year-08-31], and whenever the source
\* series holds a point outside that window the warning is printed.
C17_OutOfWindowWarned ==
    pc = "series_saved" =>
        /\ ~IsNone(csv) =>
              \A i \in 1..Len(Val(csv)) :
                  LET d == Val(csv)[i].date
                  IN  ~OutsideWindow(Timestamp(d[1], d[2], d[3]))
        /\ (\E i \in 1..Len(source) : OutsideWindow(source[i].day)) =>
              Printed("Values outside defined date range!")

\* the requested id is in neither source
Missing(requested) ==
    requested \notin BasinIds(time_series_list_fao) \cup BasinIds(time_series_list_subbasins)

\* the messages that end the turn of one basin
Outcomes(requested) ==
    {requested \o ": Not found in FAO or Subbasin datasets",
     requested \o ": Time series saved",
     requested \o ": No data in selected period"}

Turns == SelectSeq(printed, LAMBDA m : m # "Values outside defined date range!")

\* the items either source stores under the id
StoredUnder(requested) ==
    {time_series_list_fao[i] : i \in {j \in 1..Len(time_series_list_fao) :
                                        str(time_series_list_fao[j].basin_id) = requested}}
    \cup {time_series_list_subbasins[i] :
            i \in {j \in 1..Len(time_series_list_subbasins) :
                     str(time_series_list_subbasins[j].basin_id) = requested}}

\* C18: a requested basin found in neither source is skipped with a message
\* and gets no file, and the batch goes on: every requested basin, in the
\* order of the list, has its turn, and a basin stored in a source as a
\* string id with data in the window gets its file wherever it stands in
\* the list.
C18_MissingBasinSkipped ==
    pc = "batch_done" =>
        /\ Len(Turns) = Len(basin_list)
        /\ \A k \in 1..Len(basin_list) :
              LET requested == basin_list[k]
              IN  /\ Turns[k] \in Outcomes(requested)
                  /\ Missing(requested) =>
                        /\ Turns[k] = requested \o ": Not found in FAO or Subbasin datasets"
                        /\ requested \notin DOMAIN files
                  /\ (/\ ~Missing(requested)
                      /\ \A item \in StoredUnder(requested) :
                            item.basin_id.type = "str" /\ item.series = SeriesInWindow) =>
                        /\ requested \in DOMAIN files
                        /\ Turns[k] = requested \o ": Time series saved"

C18_Witness ==
    /\ pc = "batch_done"
    /\ basin_list = <<"4018", "4025">>
    /\ Missing("4018")
    /\ DOMAIN files = {"4025"}
    /\ printed = <<"4018: Not found in FAO or Subbasin datasets", "4025: Time series saved">>

\* the decimal digits of a number
RECURSIVE Digits(_)
Digits(n) == IF n < 10 THEN <<n>> ELSE Append(Digits(n \div 10), n % 10)

\* the source process_basins takes for a requested id it has found
SourceOf(requested) ==
    IF requested \in BasinIds(time_series_list_fao)
    THEN time_series_list_fao ELSE time_series_list_subbasins

\* C19: basin ids are compared as strings at every lookup: when
\* process_basins finds a requested id in a source's id set,
\* extract_trend_data locates the series stored under that id in that source
\* (also when the source stores the id as a number), so a basin with data in
\* the window gets its file; and the id of a trend row has the string form
\* it has in the input table, leading zeros included.
C19_IdsComparedAsStrings ==
    /\ pc = "batch_done" =>
          \A k \in 1..Len(basin_list) :
              LET requested == basin_list[k]
                  source_list == SourceOf(requested)
                  stored == {i \in 1..Len(source_list) :
                                str(source_list[i].basin_id) = requested}
              IN  (/\ ~Missing(requested)
                   /\ source_list[SetMin(stored)].series = SeriesInWindow) =>
                      requested \in DOMAIN files
    /\ pc = "trends_saved" =>
          \A col \in DOMAIN results :
              \A k \in 1..Len(results[col]) :
                  \E i \in 1..Len(table) :
                      table[i].basin_id = Digits(results[col][k].basin_id)

----------------------------------------------------------------------------
(* Claims on the constant snowfall start (SpecDays) *)

\* positions of the accumulation window of a row: from the accumulation
\* start date to the peak date
WindowOf(row) ==
    LET g == GroupOfRow(row)
    IN  {i \in 1..Len(g) : /\ g[i].date >= Val(row.accumulation_start_date)
                           /\ g[i].date <= Val(row.date_of_max_swe)}

\* positions of the window with a positive difference from which the SWE
\* never is below the position's own SWE up to and including the peak
NeverBelowUntilPeak(row) ==
    LET g == GroupOfRow(row)
    IN  {i \in WindowOf(row) \cap Increases(g) :
            \A j \in WindowOf(row) :
                j >= i => /\ ~IsNone(g[j].value)
                          /\ Val(g[j].value) >= Val(g[i].value)}

\* C20: constant_snowfall_start_date is the earliest date i of the
\* accumulation window whose day-over-day difference is positive and for
\* which SWE(j) >= SWE(i) for every date j from i up to and including the
\* peak; it is null when no date of the window satisfies this.
C20_ConstantSnowfallStart ==
    \A k \in 1..Len(result_rows) :
        LET row == result_rows[k]
            g == GroupOfRow(row)
        IN  ~IsNone(row.accumulation_start_date) =>
                row.constant_snowfall_start_date =
                    IF NeverBelowUntilPeak(row) = {} THEN None
                    ELSE Some(g[SetMin(NeverBelowUntilPeak(row))].date)

----------------------------------------------------------------------------
(* Claims on the accumulation window and the summer snowfall (SpecSwe) *)

\* C21: when an accumulation start exists, the window is exactly the
\* observations with accumulation_start_date <= date <= peak date;
\* snowfall_days_accumulation is the number of window observations with
\* positive difference, and snowfall_percent_accumulation is that count
\* divided by the number of observations in the window.
C21_AccumulationWindow ==
    \A k \in 1..Len(result_rows) :
        LET row == result_rows[k]
            snowfall == WindowOf(row) \cap Increases(GroupOfRow(row))
        IN  ~IsNone(row.accumulation_start_date) =>
                /\ row.snowfall_days_accumulation = Some(Cardinality(snowfall))
                /\ row.snowfall_percent_accumulation =
                       Some(<<Cardinality(snowfall), Cardinality(WindowOf(row))>>)

C21_Witness ==
    \E k \in 1..Len(result_rows) :
        LET row == result_rows[k]
            g == GroupOfRow(row)
        IN  /\ Len(g) = 4
            /\ g[1].value = Some(0)
            /\ g[2].value = Some(1)
            /\ g[3].value = Some(1)
            /\ g[4].value = Some(2)
            /\ row.snowfall_percent_accumulation = Some(<<2, 3>>)

\* positions of the observations dated in June, July or August whose SWE is
\* above that of the observation before them
SummerSnowfallDays(g) == {i \in Increases(g) : MonthOf(g[i].date) \in {6, 7, 8}}

\* every summer observation of the group follows the observation of the day
\* before it
PrecededByDayBefore(g) ==
    \A i \in 1..Len(g) :
        MonthOf(g[i].date) \in {6, 7, 8} => i >= 2 /\ g[i - 1].date = g[i].date - 1

\* C22: every observation dated in June, July or August whose SWE is
\* strictly greater than the preceding day's SWE counts as one summer
\* snowfall day; summer_snowfall_accumulation is the sum of those increases
\* and the summer snowfall day count is the number of such days
\* (stated for years whose summer observations are daily).
C22_SummerSnowfall ==
    \A k \in 1..Len(result_rows) :
        LET row == result_rows[k]
            g == GroupOfRow(row)
            days == SummerSnowfallDays(g)
        IN  PrecededByDayBefore(g) =>
                /\ row.number_of_days_summer_snowfall = Some(Cardinality(days))
                /\ row.summer_snowfall_accumulation =
                       Some(SeqSum([i \in 1..Len(g) |->
                                       IF i \in days
                                       THEN Val(g[i].value) - Val(g[i - 1].value) ELSE 0]))

----------------------------------------------------------------------------
(* Claims on the seasonal extrema of the SWE rows (SpecSwe) *)

\* positions of the group's observations dated in the season, with a value
SeasonPositions(g, season) ==
    {i \in NonNaN(g) : MonthOf(g[i].date) \in SeasonMonths(season)}

\* the hydro-day ordinals of the dates of the season that carry the value
TimingsOf(g, season, value) ==
    {HydroDay(g[i].date) : i \in {j \in SeasonPositions(g, season) : g[j].value = value}}

\* C23: for each season with data, S_max_swe and S_min_swe are the maximum
\* and minimum SWE over the dates of that season, and S_timing_max_swe and
\* S_timing_min_swe are the hydro-day ordinals of the dates, within that
\* season, at which that seasonal maximum and minimum are attained.
C23_SeasonalExtrema ==
    \A k \in 1..Len(result_rows) :
        LET row == result_rows[k]
            g == GroupOfRow(row)
        IN  \A season \in SeasonNames :
                LET values == {Val(g[i].value) : i \in SeasonPositions(g, season)}
                IN  values # {} =>
                        /\ row[season \o "_max_swe"] = Some(SetMax(values))
                        /\ row[season \o "_min_swe"] = Some(SetMin(values))
                        /\ row[season \o "_timing_max_swe"]
                               \in TimingsOf(g, season, Some(SetMax(values)))
                        /\ row[season \o "_timing_min_swe"]
                               \in TimingsOf(g, season, Some(SetMin(values)))

----------------------------------------------------------------------------
(* Claims on the invariants of the SWE rows (SpecSwe) *)

\* the derived fields of a SWE row
DerivedKeys ==
    {"melt_duration_to_swe50", "date_swe50", "timing_swe50",
     "melt_duration_to_swe10", "date_swe10", "timing_swe10",
     "summer_snowfall_accumulation", "number_of_days_summer_snowfall"}
        \cup AccumulationKeys

\* the raw extrema of a SWE row
RawKeys ==
    {"max_swe", "date_of_max_swe", "timing_of_max_swe",
     "min_swe", "date_of_min_swe", "timing_of_min_swe"}

\* C24: a hydrological-year group with exactly one observation yields a row
\* in which every derived field is null (melt dates and durations, all
\* accumulation outputs, constant snowfall start, summer snowfall sum and day
\* count), only the raw max/min with their date and timing being populated.
C24_SingleObservationAllNull ==
    \A k \in 1..Len(result_rows) :
        LET row == result_rows[k]
        IN  Len(GroupOfRow(row)) = 1 =>
                /\ \A key \in DerivedKeys : IsNone(row[key])
                /\ \A key \in RawKeys : ~IsNone(row[key])

\* the difference of two ordinals of a row is the duration between them
SameSpan(row, later, earlier, duration) ==
    (~IsNone(row[later]) /\ ~IsNone(row[earlier]) /\ ~IsNone(row[duration])) =>
        Val(row[later]) - Val(row[earlier]) = Val(row[duration])

\* C25: in every SWE row the day ordinals differ exactly as the dates do:
\* whenever the fields are non-null, timing_swe50 - timing_of_max_swe =
\* melt_duration_to_swe50, timing_swe10 - timing_of_max_swe =
\* melt_duration_to_swe10, and timing_of_max_swe - timing_accumulation_start
\* = accumulation_duration.
C25_OrdinalsDifferAsDates ==
    \A k \in 1..Len(result_rows) :
        LET row == result_rows[k]
        IN  /\ SameSpan(row, "timing_swe50", "timing_of_max_swe", "melt_duration_to_swe50")
            /\ SameSpan(row, "timing_swe10", "timing_of_max_swe", "melt_duration_to_swe10")
            /\ SameSpan(row, "timing_of_max_swe", "timing_accumulation_start",
                        "accumulation_duration")

C25_Witness ==
    \E k \in 1..Len(result_rows) :
        LET row == result_rows[k]
        IN  /\ ~IsNone(row.melt_duration_to_swe50)
            /\ ~IsNone(row.melt_duration_to_swe10)
            /\ ~IsNone(row.accumulation_duration)
            /\ Val(row.accumulation_duration) > 0
            /\ Val(row.timing_swe10) > Val(row.timing_of_max_swe)

\* C26: in every SWE row with a non-negative peak value: if date_swe10 is
\* non-null then date_swe50 is non-null and date_swe50 <= date_swe10, so
\* 1 <= melt_duration_to_swe50 <= melt_duration_to_swe10.
C26_MeltOrder ==
    \A k \in 1..Len(result_rows) :
        LET row == result_rows[k]
        IN  (Val(row.max_swe) >= 0 /\ ~IsNone(row.date_swe10)) =>
                /\ ~IsNone(row.date_swe50)
                /\ Val(row.date_swe50) <= Val(row.date_swe10)
                /\ 1 <= Val(row.melt_duration_to_swe50)
                /\ Val(row.melt_duration_to_swe50) <= Val(row.melt_duration_to_swe10)

C26_Witness ==
    \E k \in 1..Len(result_rows) :
        LET row == result_rows[k]
        IN  /\ Val(row.max_swe) = 2
            /\ ~IsNone(row.date_swe10)
            /\ Val(row.date_swe50) < Val(row.date_swe10)

\* C27: in every SWE row with a non-null accumulation start,
\* accumulation_start_date is on or before date_of_max_swe, so
\* accumulation_duration >= 0 and the accumulation window contains at least
\* one observation.
C27_AccumulationBeforePeak ==
    \A k \in 1..Len(result_rows) :
        LET row == result_rows[k]
        IN  ~IsNone(row.accumulation_start_date) =>
                /\ Val(row.accumulation_start_date) <= Val(row.date_of_max_swe)
                /\ Val(row.accumulation_duration) >= 0
                /\ WindowOf(row) # {}

C27_Witness ==
    \E k \in 1..Len(result_rows) :
        LET row == result_rows[k]
            g == GroupOfRow(row)
        IN  /\ Len(g) = 4
            /\ g[1].value = Some(1)
            /\ g[2].value = Some(0)
            /\ g[3].value = Some(1)
            /\ g[4].value = Some(2)
            /\ row.accumulation_start_date = Some(g[3].date)
            /\ row.date_of_max_swe = Some(g[4].date)
            /\ Val(row.accumulation_duration) > 0

\* C28: in every SWE row of a series without missing values whose
\* accumulation window is non-empty, constant_snowfall_start_date is non-null
\* and satisfies accumulation_start_date <= constant_snowfall_start_date <=
\* date_of_max_swe; the peak date itself qualifies as a last resort.
C28_ConstantSnowfallExists ==
    \A k \in 1..Len(result_rows) :
        LET row == result_rows[k]
            g == GroupOfRow(row)
        IN  (/\ NonNaN(g) = 1..Len(g)
             /\ ~IsNone(row.accumulation_start_date)
             /\ WindowOf(row) # {}) =>
                /\ ~IsNone(row.constant_snowfall_start_date)
                /\ Val(row.accumulation_start_date) <= Val(row.constant_snowfall_start_date)
                /\ Val(row.constant_snowfall_start_date) <= Val(row.date_of_max_swe)

C28_Witness ==
    \E k \in 1..Len(result_rows) :
        LET row == result_rows[k]
            g == GroupOfRow(row)
        IN  /\ Len(g) = 4
            /\ g[1].value = Some(0)
            /\ g[2].value = Some(1)
            /\ g[3].value = Some(0)
            /\ g[4].value = Some(2)
            /\ row.accumulation_start_date = Some(g[2].date)
            /\ row.constant_snowfall_start_date = row.date_of_max_swe

----------------------------------------------------------------------------
(* Claims on the schema handed from the extractor to calculate_trends *)

\* variables_swe of parameter_trends/trend_statistics.py
variables_swe ==
    <<"max_swe", "timing_of_max_swe", "min_swe", "timing_of_min_swe",
      "melt_duration_to_swe50", "timing_swe50", "melt_duration_to_swe10", "timing_swe10",
      "timing_accumulation_start", "accumulation_duration",
      "snowfall_days_accumulation", "snowfall_percent_accumulation",
      "timing_constant_snowfall_start",
      "summer_snowfall_accumulation", "number_of_days_summer_snowfall",
      "DJF_min_swe", "DJF_max_swe", "DJF_timing_max_swe", "DJF_timing_min_swe",
      "MAM_min_swe", "MAM_max_swe", "MAM_timing_max_swe", "MAM_timing_min_swe",
      "JJA_min_swe", "JJA_max_swe", "JJA_timing_max_swe", "JJA_timing_min_swe",
      "SON_min_swe", "SON_max_swe", "SON_timing_max_swe", "SON_timing_min_swe">>

\* C29: every column name in variables_swe is a key of every ParameterRow
\* that calculate_swe_parameters emits, so calculate_trends with
\* variables_swe on the extractor's table never meets a missing column,
\* whatever seasons have data.
C29_TrendColumnsPresent ==
    var_name = "swe" =>
        \A k \in 1..Len(result_rows) :
            \A i \in 1..Len(variables_swe) : variables_swe[i] \in DOMAIN result_rows[k]

----------------------------------------------------------------------------
(* Claims on the extraction window and the hydrological years (SpecSeries) *)

\* the labels of the hydrological years of the window
WindowLabels == (start_year + 1)..end_year

\* the calendar days the written file holds
DaysInFile ==
    IF IsNone(csv) THEN {}
    ELSE {Timestamp(Val(csv)[i].date[1], Val(csv)[i].date[2], Val(csv)[i].date[3]) :
              i \in 1..Len(Val(csv))}

\* C30: for a series extracted with (start_year, end_year) and labelled with
\* the default start month, every hydro_year label lies in
\* start_year+1 .. end_year, and the window boundaries coincide with
\* hydrological-year boundaries: no day of these hydrological years that the
\* source holds is cut off, so no group is a partial year.
C30_WindowIsWholeYears ==
    pc = "series_saved" =>
        /\ ~IsNone(csv) =>
              \A i \in 1..Len(Val(csv)) : Val(csv)[i].hydro_year \in WindowLabels
        /\ \A i \in 1..Len(source) :
              HydroYearOf(source[i].day, DefaultStartMonth) \in WindowLabels =>
                  source[i].day \in DaysInFile

====
